---------------------------- MODULE Spec2Model ----------------------------
(***************************************************************************)
(* A model of collgs_download.py: configuration load, request URL          *)
(* construction, one catalog GET, recursive link extraction, URL           *)
(* resolution and the sequential streaming downloads of main().            *)
(*                                                                         *)
(* Python strings are sequences of one-character strings, so that          *)
(* startswith, lstrip, lower, `in`, split and sorted compute on the        *)
(* characters as the code does.                                            *)
(***************************************************************************)
EXTENDS Integers, Sequences, FiniteSets, TLC

VARIABLES
    pc,             \* position of main(): "start", "loaded", "configured",
                    \* "links", "loop", "streaming", "exited"; "idle" when unused
    argv,           \* sys.argv[1:], a sequence of strings
    cfgFile,        \* the file at argv[1]: [kind, content]
    sampleExists,   \* whether sample_config.json exists in the working directory
    config,         \* the dict load_config returned
    url,            \* the request URL built from config
    out_dir,        \* str() of the pathlib.Path of the output directory
    timeout, retries, user_agent, chunk_size, skip_existing,
    payload,        \* resp.json() of the catalog response
    abs_urls,       \* sorted list of resolved URLs
    idx,            \* position of the for loop in abs_urls (1-based)
    fs,             \* files of the output directories: dest -> [got, total]
    outDirState,    \* the output directory: "absent", "present", or "blocked"
                    \* when it cannot be created (a file or a read-only
                    \* directory on its path)
    cur,            \* the download in progress: [dest, src, got, total]
    run,            \* observations of the current run (requests, writes, log)
    exitStatus,     \* process exit status, -1 while running
    runs,           \* number of runs started so far
    allSkip,        \* every run so far used skip_existing = True
    arg, ret        \* argument and result of a function applied on its own

vars == <<pc, argv, cfgFile, sampleExists, config, url, out_dir, timeout, retries,
          user_agent, chunk_size, skip_existing, payload, abs_urls, idx, fs,
          outDirState, cur, run, exitStatus, runs, allSkip, arg, ret>>

-----------------------------------------------------------------------------
(* Characters and the str methods the program uses.                        *)

Ascii == <<" ", "!", "\"", "#", "$", "%", "&", "'", "(", ")", "*", "+", ",", "-", ".", "/", "0", "1", "2", "3", "4", "5", "6", "7", "8", "9", ":", ";", "<", "=", ">", "?", "@", "A", "B", "C", "D", "E", "F", "G", "H", "I", "J", "K", "L", "M", "N", "O", "P", "Q", "R", "S", "T", "U", "V", "W", "X", "Y", "Z", "[", "\\", "]", "^", "_", "(backtick)", "a", "b", "c", "d", "e", "f", "g", "h", "i", "j", "k", "l", "m", "n", "o", "p", "q", "r", "s", "t", "u", "v", "w", "x", "y", "z", "{", "|", "}", "~">>

\* ord(c) for a printable ASCII character
OrdTable == [c \in {Ascii[j] : j \in 1..Len(Ascii)} |->
                31 + (CHOOSE j \in 1..Len(Ascii) : Ascii[j] = c)]

Ord(c) == OrdTable[c]

Chr(n) == Ascii[n - 31]

IsAlpha(c) == Ord(c) \in 65..90 \/ Ord(c) \in 97..122

IsDigit(c) == Ord(c) \in 48..57

\* str.lower() on one character, and on a string
LowerTable == [c \in DOMAIN OrdTable |->
                  IF OrdTable[c] \in 65..90 THEN Chr(OrdTable[c] + 32) ELSE c]

LowerChar(c) == LowerTable[c]

lower(s) == [j \in 1..Len(s) |-> LowerChar(s[j])]

startswith(s, p) == Len(p) <= Len(s) /\ SubSeq(s, 1, Len(p)) = p

endswith(s, p) == Len(p) <= Len(s) /\ SubSeq(s, Len(s) - Len(p) + 1, Len(s)) = p

\* p in s
contains(s, p) == \E j \in 1..(Len(s) - Len(p) + 1) : SubSeq(s, j, j + Len(p) - 1) = p

\* s.find(c) for a character c, 1-based; 0 when absent
find(s, c) ==
    IF \E j \in 1..Len(s) : s[j] = c
    THEN CHOOSE j \in 1..Len(s) : s[j] = c /\ \A k \in 1..(j - 1) : s[k] # c
    ELSE 0

RECURSIVE lstrip(_, _)
lstrip(s, c) == IF s # <<>> /\ s[1] = c THEN lstrip(Tail(s), c) ELSE s

RECURSIVE split(_, _)
split(s, c) ==
    LET j == find(s, c)
    IN  IF j = 0 THEN <<s>>
        ELSE <<SubSeq(s, 1, j - 1)>> \o split(SubSeq(s, j + 1, Len(s)), c)

RECURSIVE join(_, _)
join(parts, c) ==
    IF parts = <<>> THEN <<>>
    ELSE IF Len(parts) = 1 THEN parts[1]
    ELSE parts[1] \o <<c>> \o join(Tail(parts), c)

\* lexicographic order of str by code point (the order sorted() uses)
RECURSIVE StrLess(_, _)
StrLess(a, b) ==
    IF b = <<>> THEN FALSE
    ELSE IF a = <<>> THEN TRUE
    ELSE IF a[1] = b[1] THEN StrLess(Tail(a), Tail(b))
    ELSE Ord(a[1]) < Ord(b[1])

\* sorted(S) for a set of strings
RECURSIVE sorted(_)
sorted(S) ==
    IF S = {} THEN <<>>
    ELSE LET m == CHOOSE x \in S : \A y \in S \ {x} : StrLess(x, y)
         IN  <<m>> \o sorted(S \ {m})

-----------------------------------------------------------------------------
(* urllib.parse, on strings without '?', '#', ';', '[', ']', tab, newline  *)
(* and leading blanks (the cases in which urlsplit only separates scheme,  *)
(* netloc and path).                                                       *)

uses_relative == {<<>>, <<"f", "t", "p">>, <<"h", "t", "t", "p">>, <<"g", "o", "p", "h", "e", "r">>, <<"n", "n", "t", "p">>, <<"i", "m", "a", "p">>, <<"w", "a", "i", "s">>, <<"f", "i", "l", "e">>, <<"h", "t", "t", "p", "s">>, <<"s", "h", "t", "t", "p">>, <<"m", "m", "s">>, <<"p", "r", "o", "s", "p", "e", "r", "o">>, <<"r", "t", "s", "p">>, <<"r", "t", "s", "p", "s">>, <<"r", "t", "s", "p", "u">>, <<"s", "f", "t", "p">>, <<"s", "v", "n">>, <<"s", "v", "n", "+", "s", "s", "h">>, <<"w", "s">>, <<"w", "s", "s">>}

uses_netloc == {<<>>, <<"f", "t", "p">>, <<"h", "t", "t", "p">>, <<"g", "o", "p", "h", "e", "r">>, <<"n", "n", "t", "p">>, <<"t", "e", "l", "n", "e", "t">>, <<"i", "m", "a", "p">>, <<"w", "a", "i", "s">>, <<"f", "i", "l", "e">>, <<"m", "m", "s">>, <<"h", "t", "t", "p", "s">>, <<"s", "h", "t", "t", "p">>, <<"s", "n", "e", "w", "s">>, <<"p", "r", "o", "s", "p", "e", "r", "o">>, <<"r", "t", "s", "p">>, <<"r", "t", "s", "p", "s">>, <<"r", "t", "s", "p", "u">>, <<"r", "s", "y", "n", "c">>, <<"s", "v", "n">>, <<"s", "v", "n", "+", "s", "s", "h">>, <<"s", "f", "t", "p">>, <<"n", "f", "s">>, <<"g", "i", "t">>, <<"g", "i", "t", "+", "s", "s", "h">>, <<"w", "s">>, <<"w", "s", "s">>}

IsSchemeChar(c) == IsAlpha(c) \/ IsDigit(c) \/ c \in {"+", "-", "."}

\* urlparse(u, scheme): the scheme (lower-cased), the netloc and the path
urlparse(u, scheme) ==
    LET i         == find(u, ":")
        hasScheme == /\ i > 1
                     /\ IsAlpha(u[1])
                     /\ \A j \in 1..(i - 1) : IsSchemeChar(u[j])
        rest      == IF hasScheme THEN SubSeq(u, i + 1, Len(u)) ELSE u
        hasNet    == startswith(rest, <<"/", "/">>)
        afterNet  == SubSeq(rest, 3, Len(rest))
        k         == find(afterNet, "/")
    IN  [scheme |-> IF hasScheme THEN lower(SubSeq(u, 1, i - 1)) ELSE scheme,
         netloc |-> IF ~hasNet THEN <<>>
                    ELSE IF k = 0 THEN afterNet ELSE SubSeq(afterNet, 1, k - 1),
         path   |-> IF ~hasNet THEN rest
                    ELSE IF k = 0 THEN <<>> ELSE SubSeq(afterNet, k, Len(afterNet))]

\* urlunparse((scheme, netloc, path, '', '', ''))
urlunparse(scheme, netloc, path) ==
    LET p1 == IF netloc # <<>> \/
                 (scheme # <<>> /\ scheme \in uses_netloc /\ ~startswith(path, <<"/", "/">>))
              THEN <<"/", "/">> \o netloc \o
                   (IF path # <<>> /\ path[1] # "/" THEN <<"/">> \o path ELSE path)
              ELSE path
    IN  IF scheme # <<>> THEN scheme \o <<":">> \o p1 ELSE p1

\* the loop of urljoin that removes the dot segments
RECURSIVE RemoveDots(_, _)
RemoveDots(segments, resolved_path) ==
    IF segments = <<>> THEN resolved_path
    ELSE LET seg == Head(segments)
         IN  IF seg = <<".", ".">>
             THEN RemoveDots(Tail(segments),
                             IF resolved_path = <<>> THEN <<>>
                             ELSE SubSeq(resolved_path, 1, Len(resolved_path) - 1))
             ELSE IF seg = <<".">>
             THEN RemoveDots(Tail(segments), resolved_path)
             ELSE RemoveDots(Tail(segments), Append(resolved_path, seg))

NonEmpty(seg) == seg # <<>>

\* bpath.split('/') without its last item unless that item is empty
DropLastUnlessEmpty(parts) ==
    IF parts[Len(parts)] # <<>> THEN SubSeq(parts, 1, Len(parts) - 1) ELSE parts

BaseParts(bpath) == DropLastUnlessEmpty(split(bpath, "/"))

\* segments[1:-1] = filter(None, segments[1:-1])
FilterMiddle(segs) ==
    IF Len(segs) <= 2 THEN segs
    ELSE <<segs[1]>> \o SelectSeq(SubSeq(segs, 2, Len(segs) - 1), NonEmpty)
         \o <<segs[Len(segs)]>>

\* the segments urljoin resolves for a non-empty relative path
JoinSegments(bpath, path) ==
    IF startswith(path, <<"/">>) THEN split(path, "/")
    ELSE FilterMiddle(BaseParts(bpath) \o split(path, "/"))

\* '/'.join(resolved_path) or '/'
OrSlash(p) == IF p = <<>> THEN <<"/">> ELSE p

ResolvedPath(segments) ==
    OrSlash(join(IF segments[Len(segments)] \in {<<".">>, <<".", ".">>}
                 THEN Append(RemoveDots(segments, <<>>), <<>>)
                 ELSE RemoveDots(segments, <<>>), "/"))

\* urljoin once base and u are parsed into b and r
JoinParsed(b, r, u) ==
    IF r.scheme # b.scheme \/ r.scheme \notin uses_relative THEN u
    ELSE IF r.scheme \in uses_netloc /\ r.netloc # <<>>
    THEN urlunparse(r.scheme, r.netloc, r.path)
    ELSE IF r.path = <<>>
    THEN urlunparse(r.scheme, b.netloc, b.path)
    ELSE urlunparse(r.scheme, b.netloc, ResolvedPath(JoinSegments(b.path, r.path)))

\* urljoin once base is parsed into b: u is parsed with the scheme of b
JoinWithBase(b, u) == JoinParsed(b, urlparse(u, b.scheme), u)

\* urljoin(base, u)
urljoin(base, u) ==
    IF base = <<>> THEN u
    ELSE IF u = <<>> THEN base
    ELSE JoinWithBase(urlparse(base, <<>>), u)

-----------------------------------------------------------------------------
(* resolve_url                                                             *)

BASE_PREFIX == <<"h", "t", "t", "p", "s", ":", "/", "/", "c", "o", "l", "l", "g", "s", ".", "l", "u", "/">>

HttpPrefix == <<"h", "t", "t", "p", ":", "/", "/">>

HttpsPrefix == <<"h", "t", "t", "p", "s", ":", "/", "/">>

\* the same without the lstrip("/") of the relative part
resolve_url_nostrip(u) ==
    IF startswith(u, HttpPrefix) \/ startswith(u, HttpsPrefix) THEN u
    ELSE urljoin(BASE_PREFIX, u)

resolve_url(u) ==
    IF startswith(u, HttpPrefix) \/ startswith(u, HttpsPrefix) THEN u
    ELSE urljoin(BASE_PREFIX, lstrip(u, "/"))


-----------------------------------------------------------------------------
(* Values of the variables a specification does not use.                   *)

NoFile == [kind |-> "none", content |-> <<>>]

NoDownload == [dest |-> <<>>, src |-> <<>>, got |-> 0, total |-> 0]

NoEvent == [url |-> <<>>, outcome |-> "none", path |-> <<>>]

\* what the current run has done so far
NewRun == [cause |-> "none",          \* why the start-up failed, if it did
           catalogRequests |-> 0,     \* GETs of the catalog URL
           catalog |-> "none",        \* "error", "notjson" or "json"
           extracted |-> FALSE,       \* find_zip_links was applied
           downloadRequests |-> 0,    \* GETs of asset URLs
           writes |-> 0,              \* files opened for writing
           sampleWrites |-> 0,        \* times sample_config.json was written
           attempted |-> <<>>,        \* URLs passed to stream_download, in order
           failed |-> {},             \* URLs whose stream_download raised
           open |-> {},               \* destinations open for writing
           last |-> NoEvent]          \* outcome of the last stream_download

MainUnused ==
    /\ argv = <<>> /\ cfgFile = NoFile /\ sampleExists = FALSE
    /\ config = <<>> /\ url = <<>> /\ out_dir = <<>>
    /\ timeout = 0 /\ retries = 0 /\ user_agent = <<>> /\ chunk_size = 0
    /\ skip_existing = FALSE /\ payload = <<>> /\ abs_urls = <<>> /\ idx = 0
    /\ fs = <<>> /\ cur = NoDownload /\ run = NewRun /\ exitStatus = -1
    /\ runs = 0 /\ allSkip = TRUE /\ outDirState = "absent"

mainVars == <<argv, cfgFile, sampleExists, config, url, out_dir, timeout, retries,
              user_agent, chunk_size, skip_existing, payload, abs_urls, idx, fs,
              outDirState, cur, run, exitStatus, runs, allSkip>>

-----------------------------------------------------------------------------
(* resolve_url applied on its own to bounded strings.                      *)

MaxTokens == 3

Tokens == {HttpPrefix, HttpsPrefix, <<"H", "T", "T", "P", "S", ":">>,
           <<"f", "t", "p", ":">>, <<"/">>, <<".">>, <<".", ".">>, <<"a">>,
           <<"b", ".", "z", "i", "p">>}

RECURSIVE Concat(_)
Concat(ts) == IF ts = <<>> THEN <<>> ELSE Head(ts) \o Concat(Tail(ts))

UrlInputs == {Concat(ts) : ts \in UNION {[1..n -> Tokens] : n \in 0..MaxTokens}}

InitResolve == /\ pc = "call" /\ arg \in UrlInputs /\ ret = <<>> /\ MainUnused

CallResolve ==
    /\ pc = "call"
    /\ ret' = resolve_url(arg)
    /\ pc' = "returned"
    /\ UNCHANGED <<arg, mainVars>>

NextResolve == CallResolve

SpecResolve == InitResolve /\ [][NextResolve]_vars


IsAbsolute(u) == startswith(u, HttpPrefix) \/ startswith(u, HttpsPrefix)

IsUnreserved(c) == IsAlpha(c) \/ IsDigit(c) \/ c \in {".", "-", "_", "~"}

\* a relative reference made of unreserved characters and "/" separators,
\* with no empty segment before the last one and no "." or ".." segment
PlainRelative(s) ==
    LET segs == split(s, "/")
    IN  /\ \A j \in 1..Len(s) : IsUnreserved(s[j]) \/ s[j] = "/"
        /\ \A k \in 1..Len(segs) :
              /\ segs[k] \notin {<<".">>, <<".", ".">>}
              /\ segs[k] = <<>> => k = Len(segs)

AfterScheme(u) == SubSeq(u, Len(HttpsPrefix) + 1, Len(u))

\* C8 (as amended): resolve_url(u) is u when u starts with http:// or https://;
\* otherwise, when u without its leading slashes is made of unreserved
\* characters and "/" with no empty, "." or ".." segment, it is BASE_PREFIX
\* followed by u without its leading slashes, an https URL with no doubled
\* separator after the host.
C8_ResolveUrl ==
    pc = "returned" =>
        /\ IsAbsolute(arg) => ret = arg
        /\ (~IsAbsolute(arg) /\ PlainRelative(lstrip(arg, "/"))) =>
              /\ ret = BASE_PREFIX \o lstrip(arg, "/")
              /\ startswith(ret, HttpsPrefix)
              /\ ~contains(AfterScheme(ret), <<"/", "/">>)

\* C8 as stated: every string that is not absolute gives BASE_PREFIX followed
\* by the string without its leading slashes.
C8_AlwaysPrefixed ==
    pc = "returned" =>
        /\ IsAbsolute(arg) => ret = arg
        /\ ~IsAbsolute(arg) => ret = BASE_PREFIX \o lstrip(arg, "/")

C8_Witness ==
    /\ pc = "returned"
    /\ ~IsAbsolute(arg)
    /\ startswith(arg, <<"/">>)
    /\ lstrip(arg, "/") # <<>>
    /\ PlainRelative(lstrip(arg, "/"))
    /\ ret = BASE_PREFIX \o lstrip(arg, "/")

-----------------------------------------------------------------------------
(* JSON values: [t, v] with t in "dict" (v a sequence of <<key, value>>    *)
(* with distinct keys), "list" (v a sequence of values), "str" (v the      *)
(* string) and "num" (any other scalar).                                   *)

JStr(s) == [t |-> "str", v |-> s]

JNum == [t |-> "num", v |-> <<>>]

JList(items) == [t |-> "list", v |-> items]

JDict(members) == [t |-> "dict", v |-> members]

DictHas(d, k) == \E j \in 1..Len(d.v) : d.v[j][1] = k

DictGet(d, k) == d.v[CHOOSE j \in 1..Len(d.v) : d.v[j][1] = k][2]

-----------------------------------------------------------------------------
(* find_zip_links                                                          *)

K_url == <<"u", "r", "l">>

K_href == <<"h", "r", "e", "f">>

K_downloadlink == <<"d", "o", "w", "n", "l", "o", "a", "d", "l", "i", "n", "k">>

K_file == <<"f", "i", "l", "e">>

K_link == <<"l", "i", "n", "k">>

K_data == <<"d", "a", "t", "a">>

DotZip == <<".", "z", "i", "p">>

LinkFields == {K_url, K_href, K_downloadlink, K_file, K_link}

\* the test of a string member without the final lower-case '.zip' check
IsZipLinkNoCheck(k, v) ==
    lower(k) \in LinkFields \/ endswith(v, DotZip) \/ contains(v, DotZip)

\* the two nested conditions on a string member v with key k
IsZipLink(k, v) ==
    /\ lower(k) \in LinkFields \/ endswith(v, DotZip) \/ contains(v, DotZip)
    /\ contains(lower(v), DotZip)

RECURSIVE walk(_)
walk(node) ==
    IF node.t = "dict"
    THEN (IF DictHas(node, K_data) THEN walk(DictGet(node, K_data)) ELSE {})
         \cup UNION { LET k == node.v[j][1]
                          v == node.v[j][2]
                      IN  IF v.t \in {"dict", "list"} THEN walk(v)
                          ELSE IF v.t = "str" /\ IsZipLink(k, v.v) THEN {v.v}
                          ELSE {}
                      : j \in 1..Len(node.v) }
    ELSE IF node.t = "list"
    THEN UNION { walk(node.v[j]) : j \in 1..Len(node.v) }
    ELSE {}

find_zip_links(obj) == walk(obj)


-----------------------------------------------------------------------------
(* find_zip_links applied on its own to bounded JSON values.               *)

MaxWidth == 2

MaxDepth == 2

JsonKeys == {K_url, <<"H", "r", "e", "f">>, K_data}

JsonStrings == {<<"a", ".", "z", "i", "p">>, <<"b", ".", "Z", "I", "P">>,
                <<"r", ".", "t", "x", "t">>}

Leaves == {JStr(s) : s \in JsonStrings} \cup {JNum}

Injective(f) == \A a, b \in DOMAIN f : a # b => f[a] # f[b]

\* dicts and lists of at most MaxWidth members taken from S
Containers(S) ==
    UNION { {JList(items) : items \in [1..n -> S]}
            \cup {JDict([j \in 1..n |-> <<ks[j], vals[j]>>]) :
                    ks \in {f \in [1..n -> JsonKeys] : Injective(f)},
                    vals \in [1..n -> S]}
          : n \in 0..MaxWidth }

\* one more level of nesting around the values of S
Wrapped(S) ==
    {JDict(<< <<k, x>> >>) : k \in JsonKeys, x \in S}
    \cup {JList(<<x>>) : x \in S}

RECURSIVE JsonOfDepth(_)
JsonOfDepth(d) ==
    IF d = 0 THEN Leaves
    ELSE IF d = 1 THEN Leaves \cup Containers(Leaves)
    ELSE JsonOfDepth(d - 1) \cup Wrapped(JsonOfDepth(d - 1))

JsonInputs == JsonOfDepth(MaxDepth)

InitLinks == /\ pc = "call" /\ arg \in JsonInputs /\ ret = {} /\ MainUnused

CallFindZipLinks ==
    /\ pc = "call"
    /\ ret' = find_zip_links(arg)
    /\ pc' = "returned"
    /\ UNCHANGED <<arg, mainVars>>

NextLinks == CallFindZipLinks

SpecLinks == InitLinks /\ [][NextLinks]_vars

\* the <<key, string>> members of the objects of a JSON value, at any depth
RECURSIVE StringMembers(_)
StringMembers(node) ==
    IF node.t = "dict"
    THEN {<<node.v[j][1], node.v[j][2].v>> :
             j \in {i \in 1..Len(node.v) : node.v[i][2].t = "str"}}
         \cup UNION {StringMembers(node.v[j][2]) : j \in 1..Len(node.v)}
    ELSE IF node.t = "list"
    THEN UNION {StringMembers(node.v[j]) : j \in 1..Len(node.v)}
    ELSE {}

\* C5: find_zip_links returns exactly the strings v that are the value of an
\* object member with key k, at any depth, with (lower(k) a link field or
\* '.zip' in v) and '.zip' in lower(v); nothing else is returned.
C5_FindZipLinks ==
    pc = "returned" =>
        ret = {m[2] : m \in {n \in StringMembers(arg) :
                  /\ lower(n[1]) \in LinkFields \/ contains(n[2], DotZip)
                  /\ contains(lower(n[2]), DotZip)}}

ReadmeTxt == <<"r", ".", "t", "x", "t">>

\* a value with a link field holding no '.zip', a lower-case and an
\* upper-case '.ZIP' member at different depths, returned accordingly
C5_Witness ==
    /\ pc = "returned"
    /\ <<K_url, ReadmeTxt>> \in StringMembers(arg)
    /\ ReadmeTxt \notin ret
    /\ \E m \in StringMembers(arg) : m[1] \notin LinkFields /\ m[2] \in ret
    /\ \E m \in StringMembers(arg) :
          m[2] = <<"b", ".", "Z", "I", "P">> /\ lower(m[1]) = K_href /\ m[2] \in ret
    /\ arg.t = "dict" /\ \E j \in 1..Len(arg.v) : arg.v[j][2].t \in {"dict", "list"}


-----------------------------------------------------------------------------
(* Configuration: a dict is a function from its keys; the parameters       *)
(* mapping is a sequence of <<key, value>> in insertion order, because     *)
(* urlencode writes the query string in that order.                        *)

DefaultBaseUrl == <<"h", "t", "t", "p", "s", ":", "/", "/", "c", "o", "l", "l", "g", "s", ".", "l", "u", "/", "c", "a", "t", "a", "l", "o", "g", "/", "o", "s", "e", "o", "/", "s", "e", "a", "r", "c", "h">>

DefaultOutputDirectory == <<"d", "o", "w", "n", "l", "o", "a", "d", "s">>

DefaultUserAgent == <<"e", "o", "-", "d", "o", "w", "n", "l", "o", "a", "d", "e", "r", "/", "1", ".", "0">>

DefaultTimeout == 120

DefaultRetries == 3

DefaultChunkSize == 65536

K_httpAccept == <<"h", "t", "t", "p", "A", "c", "c", "e", "p", "t">>

V_json == <<"j", "s", "o", "n">>

\* d.get(k, default)
dict_get(d, k, default) == IF k \in DOMAIN d THEN d[k] ELSE default

\* d with d[k] = v set (adding the key when absent)
dict_set(d, k, v) == [x \in DOMAIN d \cup {k} |-> IF x = k THEN v ELSE d[x]]

\* k in params, for the parameters mapping
ParamsHas(params, k) == \E j \in 1..Len(params) : params[j][1] = k

ParamsGet(params, k) == params[CHOOSE j \in 1..Len(params) : params[j][1] = k][2]

\* the defaulting of load_config with base_url set whether present or not
load_config_defaults_overwrite(c) ==
    LET c1 == dict_set(c, "base_url", DefaultBaseUrl)
        c2 == IF "parameters" \notin DOMAIN c1 THEN dict_set(c1, "parameters", <<>>) ELSE c1
        c3 == IF "parameters" \in DOMAIN c2 /\ ~ParamsHas(c2["parameters"], K_httpAccept)
              THEN dict_set(c2, "parameters",
                            Append(c2["parameters"], <<K_httpAccept, V_json>>))
              ELSE c2
    IN  IF "output_directory" \notin DOMAIN c3
        THEN dict_set(c3, "output_directory", DefaultOutputDirectory) ELSE c3

\* the defaulting load_config applies to the parsed file
load_config_defaults(c) ==
    LET c1 == IF "base_url" \notin DOMAIN c THEN dict_set(c, "base_url", DefaultBaseUrl) ELSE c
        c2 == IF "parameters" \notin DOMAIN c1 THEN dict_set(c1, "parameters", <<>>) ELSE c1
        c3 == IF "parameters" \in DOMAIN c2 /\ ~ParamsHas(c2["parameters"], K_httpAccept)
              THEN dict_set(c2, "parameters",
                            Append(c2["parameters"], <<K_httpAccept, V_json>>))
              ELSE c2
    IN  IF "output_directory" \notin DOMAIN c3
        THEN dict_set(c3, "output_directory", DefaultOutputDirectory) ELSE c3

HexDigits == <<"0", "1", "2", "3", "4", "5", "6", "7", "8", "9", "A", "B", "C", "D", "E", "F">>

\* urllib.parse.quote_plus on one character
quote_plus_char(c, safe) ==
    IF c = " " THEN <<"+">>
    ELSE IF IsAlpha(c) \/ IsDigit(c) \/ c \in {"_", ".", "-", "~"} \/ c \in safe THEN <<c>>
    ELSE <<"%", HexDigits[(Ord(c) \div 16) + 1], HexDigits[(Ord(c) % 16) + 1]>>

quote_plus(s, safe) == Concat([j \in 1..Len(s) |-> quote_plus_char(s[j], safe)])

\* urllib.parse.urlencode(params, safe=safe)
urlencode(params, safe) ==
    join([j \in 1..Len(params) |->
            quote_plus(params[j][1], safe) \o <<"=">> \o quote_plus(params[j][2], safe)],
         "&")

SafeChars == {"[", "]", ",", ":"}

build_url_from_config(c) ==
    LET base_url == dict_get(c, "base_url", DefaultBaseUrl)
        params   == dict_get(c, "parameters", <<>>)
        params2  == IF ~ParamsHas(params, K_httpAccept)
                    THEN Append(params, <<K_httpAccept, V_json>>) ELSE params
    IN  base_url \o <<"?">> \o urlencode(params2, SafeChars)


-----------------------------------------------------------------------------
(* stream_download: destination name and the skip test                     *)

DownloadZip == <<"d", "o", "w", "n", "l", "o", "a", "d", ".", "z", "i", "p">>

DotDot == <<".", ".">>

IsNamePart(seg) == seg # <<>> /\ seg # <<".">>

\* the root of a POSIX path: "//" for exactly two leading slashes, "/" for
\* any other number of them, "" for a relative path
PathRoot(p) ==
    IF ~startswith(p, <<"/">>) THEN <<>>
    ELSE IF Len(p) - Len(lstrip(p, "/")) = 2 THEN <<"/", "/">>
    ELSE <<"/">>

\* the components of a path: empty and "." segments are dropped
PathParts(p) == SelectSeq(split(p, "/"), IsNamePart)

\* str() of the path with that root and those components
PathFormat(root, parts) ==
    IF root = <<>> /\ parts = <<>> THEN <<".">> ELSE root \o join(parts, "/")

\* str(pathlib.Path(p))
Path(p) == PathFormat(PathRoot(p), PathParts(p))

\* pathlib.Path(p).name
PathName(p) ==
    LET parts == PathParts(p)
    IN  IF parts = <<>> THEN <<>> ELSE parts[Len(parts)]

\* pathlib.Path(urlparse(url).path).name or "download.zip"
file_name(u) ==
    LET name == PathName(urlparse(u, <<>>).path)
    IN  IF name = <<>> THEN DownloadZip ELSE name

\* str(out_dir / name) for the path dir and the URL u; the name is relative
dest_path(dir, u) ==
    PathFormat(PathRoot(dir), PathParts(dir) \o PathParts(file_name(u)))

\* dest names a directory: in an output directory that exists and holds only
\* files written by stream_download, that is the entry ".."
IsDirectory(dest) == PathName(dest) = DotDot

\* dest.exists(), once out_dir.mkdir() has succeeded
Exists(dest, files) == dest \in DOMAIN files \/ IsDirectory(dest)

\* a skip test that never skips
ShouldSkipNever(flag, dest, files) == FALSE

\* skip_existing and dest.exists()
ShouldSkip(flag, dest, files) == flag /\ Exists(dest, files)

\* a URL the HTTP client can request at all
Requestable(u) == LET l == lower(u) IN startswith(l, HttpPrefix) \/ startswith(l, HttpsPrefix)

-----------------------------------------------------------------------------
(* The inputs of main().                                                   *)

MaxLinks == 2       \* candidate links in a catalog response

MaxChunks == 1      \* chunks in the body of an asset

MaxRuns == 2        \* successive runs of the program on the same directories

MaxParams == 2      \* entries of the parameters mapping of a configuration file

DotJson == <<".", "j", "s", "o", "n">>

CfgArg == <<"c", ".", "j", "s", "o", "n">>

TxtArg == <<"c", ".", "t", "x", "t">>

OutArg == <<"o", "u", "t", "/">>

ArgvChoices == {<<>>, <<TxtArg>>, <<CfgArg>>}

UsageOk(a) == ~(Len(a) < 1 \/ ~endswith(a[1], DotJson))

ValidFile(c) == [kind |-> "valid", content |-> c]

OutDirSetting == <<".", "/", "o", "u", "t", "/">>

NoSkipConfig == [download_options |-> [o \in {"skip_existing"} |-> FALSE],
                 output_directory |-> OutDirSetting]

MainFiles == {[kind |-> k, content |-> <<>>] : k \in {"missing", "unreadable", "invalid"}}
             \cup {ValidFile(<<>>), ValidFile(NoSkipConfig)}

\* an absolute URL whose last path segment is ".."
DotDotLink == <<"h", "t", "t", "p", ":", "/", "/", "h", "/", "a", ".", "z", "i", "p", "/", ".", ".">>

\* candidate links: two spellings of one URL, a second URL with the same
\* file name, another file, and a URL whose file name is a directory
LinkUniverse == {<<"a", ".", "z", "i", "p">>,
                 <<"/", "a", ".", "z", "i", "p">>,
                 <<"x", "/", "a", ".", "z", "i", "p">>,
                 <<"b", ".", "z", "i", "p">>,
                 DotDotLink}

\* {"data": [{"url": l}, ...], "url": "r.txt"} for the links of S
Catalog(S) ==
    LET ls == sorted(S)
    IN  JDict(<< <<K_data, JList([j \in 1..Len(ls) |-> JDict(<< <<K_url, JStr(ls[j])>> >>)])>>,
                 <<K_url, JStr(ReadmeTxt)>> >>)

Catalogs == {Catalog(S) : S \in {T \in SUBSET LinkUniverse : Cardinality(T) <= MaxLinks}}

-----------------------------------------------------------------------------
(* main()                                                                  *)

pureVars == <<arg, ret>>

locals == <<config, url, out_dir, timeout, retries, user_agent, chunk_size,
            skip_existing, payload, abs_urls, idx, cur>>

ClearLocals ==
    /\ config = <<>> /\ url = <<>> /\ out_dir = <<>>
    /\ timeout = 0 /\ retries = 0 /\ user_agent = <<>> /\ chunk_size = 0
    /\ skip_existing = FALSE /\ payload = <<>> /\ abs_urls = <<>> /\ idx = 0
    /\ cur = NoDownload

\* a first run in a working directory without sample_config.json and with
\* no output directory yet; the directory can be created, or it cannot
InitWith(argvs, files) ==
    /\ pc = "start"
    /\ argv \in argvs
    /\ cfgFile \in (IF UsageOk(argv) THEN files ELSE {NoFile})
    /\ sampleExists = FALSE
    /\ ClearLocals
    /\ fs = <<>>
    /\ outDirState \in {"absent", "blocked"}
    /\ run = NewRun
    /\ exitStatus = -1
    /\ runs = 1
    /\ allSkip = TRUE
    /\ arg = <<>> /\ ret = <<>>

Init == InitWith(ArgvChoices, MainFiles)

Exit(status) == pc' = "exited" /\ exitStatus' = status

\* usage error that never calls load_config(None)
UsageErrorNoSample ==
    /\ pc = "start"
    /\ ~UsageOk(argv)
    /\ run' = [run EXCEPT !.cause = "usage"]
    /\ Exit(1)
    /\ UNCHANGED <<argv, cfgFile, sampleExists, locals, fs, runs, allSkip, outDirState, pureVars>>

\* lines 152-162: usage error; the sample is written by load_config(None)
\* unless it exists
UsageError ==
    /\ pc = "start"
    /\ ~UsageOk(argv)
    /\ sampleExists' = TRUE
    /\ run' = [run EXCEPT !.cause = "usage",
                          !.sampleWrites = IF sampleExists THEN @ ELSE @ + 1]
    /\ Exit(1)
    /\ UNCHANGED <<argv, cfgFile, locals, fs, runs, allSkip, outDirState, pureVars>>

\* load_config, lines 15-50: no file at config_path
LoadConfigMissing ==
    /\ pc = "start"
    /\ UsageOk(argv)
    /\ cfgFile.kind = "missing"
    /\ sampleExists' = TRUE
    /\ run' = [run EXCEPT !.cause = "missing", !.sampleWrites = @ + 1]
    /\ Exit(1)
    /\ UNCHANGED <<argv, cfgFile, locals, fs, runs, allSkip, outDirState, pureVars>>

\* load_config, lines 52-54 and 67-69: open() or json.load() raises
LoadConfigError ==
    /\ pc = "start"
    /\ UsageOk(argv)
    /\ cfgFile.kind \in {"unreadable", "invalid"}
    /\ run' = [run EXCEPT !.cause = cfgFile.kind]
    /\ Exit(1)
    /\ UNCHANGED <<argv, cfgFile, sampleExists, locals, fs, runs, allSkip, outDirState, pureVars>>

\* load_config, lines 52-66: the file holds a JSON object
LoadConfigOk ==
    /\ pc = "start"
    /\ UsageOk(argv)
    /\ cfgFile.kind = "valid"
    /\ config' = load_config_defaults(cfgFile.content)
    /\ pc' = "loaded"
    /\ UNCHANGED <<argv, cfgFile, sampleExists, url, out_dir, timeout, retries,
                   user_agent, chunk_size, skip_existing, payload, abs_urls, idx,
                   cur, fs, run, exitStatus, runs, allSkip, outDirState, pureVars>>

\* lines 168-192: the request URL and the settings
Configure ==
    /\ pc = "loaded"
    /\ url' = build_url_from_config(config)
    /\ out_dir' = IF Len(argv) > 1 THEN Path(argv[2])
                  ELSE Path(dict_get(config, "output_directory", DefaultOutputDirectory))
    /\ LET connection       == dict_get(config, "connection", <<>>)
           download_options == dict_get(config, "download_options", <<>>)
       IN  /\ timeout' = dict_get(connection, "timeout", DefaultTimeout)
           /\ retries' = dict_get(connection, "retries", DefaultRetries)
           /\ user_agent' = dict_get(connection, "user_agent", DefaultUserAgent)
           /\ chunk_size' = dict_get(download_options, "chunk_size", DefaultChunkSize)
           /\ skip_existing' = dict_get(download_options, "skip_existing", TRUE)
    /\ allSkip' = (allSkip /\ skip_existing')
    /\ pc' = "configured"
    /\ UNCHANGED <<argv, cfgFile, sampleExists, config, payload, abs_urls, idx, cur,
                   fs, outDirState, run, exitStatus, runs, pureVars>>


\* lines 194-195: the GET raises (transport error) or raise_for_status() does;
\* the exception is not caught and the interpreter exits with status 1
CatalogFails ==
    /\ pc = "configured"
    /\ run' = [run EXCEPT !.catalogRequests = @ + 1, !.catalog = "error"]
    /\ Exit(1)
    /\ UNCHANGED <<argv, cfgFile, sampleExists, locals, fs, runs, allSkip, outDirState, pureVars>>

\* lines 194-201: a 2xx response whose body is not JSON. resp.json() raises
\* requests' JSONDecodeError, which derives from json.JSONDecodeError, caught
\* at line 199, unless the package simplejson is importable: then it derives
\* from simplejson.JSONDecodeError, the handler does not apply and the
\* exception leaves main()
CatalogNotJson ==
    /\ pc = "configured"
    /\ run' = [run EXCEPT !.catalogRequests = @ + 1, !.catalog = "notjson"]
    /\ \E caught \in BOOLEAN : Exit(IF caught THEN 2 ELSE 1)
    /\ UNCHANGED <<argv, cfgFile, sampleExists, locals, fs, runs, allSkip, outDirState, pureVars>>

\* lines 194-198: a 2xx response with a JSON body
CatalogJson ==
    /\ pc = "configured"
    /\ \E p \in Catalogs : payload' = p
    /\ run' = [run EXCEPT !.catalogRequests = @ + 1, !.catalog = "json"]
    /\ pc' = "fetched"
    /\ UNCHANGED <<argv, cfgFile, sampleExists, config, url, out_dir, timeout,
                   retries, user_agent, chunk_size, skip_existing, abs_urls, idx,
                   cur, fs, exitStatus, runs, allSkip, outDirState, pureVars>>

\* lines 203-206: no candidate link
NoLinks ==
    /\ pc = "fetched"
    /\ find_zip_links(payload) = {}
    /\ run' = [run EXCEPT !.extracted = TRUE]
    /\ Exit(0)
    /\ UNCHANGED <<argv, cfgFile, sampleExists, locals, fs, runs, allSkip, outDirState, pureVars>>

\* the resolved URLs in the order of a set iteration, not sorted
RECURSIVE unsorted(_)
unsorted(S) ==
    IF S = {} THEN <<>>
    ELSE LET m == CHOOSE x \in S : \A y \in S \ {x} : StrLess(y, x)
         IN  <<m>> \o unsorted(S \ {m})

\* line 208 without sorted()
ResolvedListUnsorted(candidates) == unsorted({resolve_url(u) : u \in candidates})

\* line 208: sorted({resolve_url(u) for u in candidates})
ResolvedList(candidates) == sorted({resolve_url(u) : u \in candidates})

\* lines 203-209: the list of URLs to download
StartDownloads ==
    /\ pc = "fetched"
    /\ find_zip_links(payload) # {}
    /\ abs_urls' = ResolvedList(find_zip_links(payload))
    /\ idx' = 1
    /\ run' = [run EXCEPT !.extracted = TRUE]
    /\ pc' = "loop"
    /\ UNCHANGED <<argv, cfgFile, sampleExists, config, url, out_dir, timeout,
                   retries, user_agent, chunk_size, skip_existing, payload, cur,
                   fs, exitStatus, runs, allSkip, outDirState, pureVars>>

loopFrame == <<argv, cfgFile, sampleExists, config, url, out_dir, timeout, retries,
               user_agent, chunk_size, skip_existing, payload, abs_urls,
               exitStatus, runs, allSkip, pureVars>>

InLoop == pc = "loop" /\ idx <= Len(abs_urls)

\* line 124: out_dir.mkdir(parents=True, exist_ok=True) returns
Mkdir == outDirState # "blocked" /\ outDirState' = "present"

\* lines 124 and 215-216: out_dir.mkdir() raises; nothing is requested
MkdirFails ==
    /\ InLoop
    /\ outDirState = "blocked"
    /\ LET zurl == abs_urls[idx]
       IN  run' = [run EXCEPT !.attempted = Append(@, zurl),
                              !.failed = @ \cup {zurl},
                              !.last = [url |-> zurl, outcome |-> "failed",
                                        path |-> <<>>]]
    /\ idx' = idx + 1
    /\ UNCHANGED <<pc, cur, fs, outDirState, loopFrame>>

\* lines 210-214 and 124-130: the destination exists and is skipped
SkipExisting ==
    /\ InLoop
    /\ Mkdir
    /\ LET zurl == abs_urls[idx]
           dest == dest_path(out_dir, zurl)
       IN  /\ ShouldSkip(skip_existing, dest, fs)
           /\ run' = [run EXCEPT !.attempted = Append(@, zurl),
                                 !.last = [url |-> zurl, outcome |-> "skipped",
                                           path |-> dest]]
    /\ idx' = idx + 1
    /\ UNCHANGED <<pc, cur, fs, loopFrame>>

\* the handler of lines 215-216 leaving the loop with the exception
RequestFailsAbort ==
    /\ InLoop
    /\ Mkdir
    /\ LET zurl == abs_urls[idx]
           dest == dest_path(out_dir, zurl)
       IN  /\ ~ShouldSkip(skip_existing, dest, fs)
           /\ run' = [run EXCEPT !.attempted = Append(@, zurl),
                                 !.downloadRequests = @ + 1,
                                 !.failed = @ \cup {zurl},
                                 !.last = [url |-> zurl, outcome |-> "failed",
                                           path |-> <<>>]]
    /\ pc' = "exited"
    /\ exitStatus' = 1
    /\ UNCHANGED <<idx, cur, fs, argv, cfgFile, sampleExists, config, url, out_dir,
                   timeout, retries, user_agent, chunk_size, skip_existing, payload,
                   abs_urls, runs, allSkip, pureVars>>

\* lines 132-136 and 215-216: requests.get is called and it raises, or
\* raise_for_status() does, or the headers cannot be read, or open(dest, "wb")
\* raises (dest is a directory, no permission): dest is not created
RequestFails ==
    /\ InLoop
    /\ Mkdir
    /\ LET zurl == abs_urls[idx]
           dest == dest_path(out_dir, zurl)
       IN  /\ ~ShouldSkip(skip_existing, dest, fs)
           /\ run' = [run EXCEPT !.attempted = Append(@, zurl),
                                 !.downloadRequests = @ + 1,
                                 !.failed = @ \cup {zurl},
                                 !.last = [url |-> zurl, outcome |-> "failed",
                                           path |-> <<>>]]
    /\ idx' = idx + 1
    /\ UNCHANGED <<pc, cur, fs, loopFrame>>

\* lines 132-136: a 2xx response; open(dest, "wb") creates or truncates dest
RequestOk ==
    /\ InLoop
    /\ Mkdir
    /\ LET zurl == abs_urls[idx]
           dest == dest_path(out_dir, zurl)
       IN  /\ ~ShouldSkip(skip_existing, dest, fs)
           /\ Requestable(zurl)
           /\ ~IsDirectory(dest)
           /\ \E total \in 0..MaxChunks :
                 /\ cur' = [dest |-> dest, src |-> zurl, got |-> 0, total |-> total]
                 /\ fs' = dict_set(fs, dest, [got |-> 0, total |-> total])
           /\ run' = [run EXCEPT !.attempted = Append(@, zurl),
                                 !.downloadRequests = @ + 1,
                                 !.writes = @ + 1,
                                 !.open = @ \cup {dest}]
    /\ pc' = "streaming"
    /\ UNCHANGED <<idx, loopFrame>>

\* lines 137-141: one chunk is written
WriteChunk ==
    /\ pc = "streaming"
    /\ cur.got < cur.total
    /\ cur' = [cur EXCEPT !.got = @ + 1]
    /\ fs' = [fs EXCEPT ![cur.dest].got = @ + 1]
    /\ UNCHANGED <<pc, idx, run, outDirState, loopFrame>>

\* lines 137-140 and 215-216: iter_content or write raises before the end of
\* the body; the with blocks close the file, which stays as it is
StreamFails ==
    /\ pc = "streaming"
    /\ cur.got < cur.total
    /\ run' = [run EXCEPT !.failed = @ \cup {cur.src},
                          !.open = @ \ {cur.dest},
                          !.last = [url |-> cur.src, outcome |-> "failed",
                                    path |-> <<>>]]
    /\ cur' = NoDownload
    /\ idx' = idx + 1
    /\ pc' = "loop"
    /\ UNCHANGED <<fs, outDirState, loopFrame>>

\* lines 137-148 and 214: the body ends, the file is closed, dest returned
StreamDone ==
    /\ pc = "streaming"
    /\ cur.got = cur.total
    /\ run' = [run EXCEPT !.open = @ \ {cur.dest},
                          !.last = [url |-> cur.src, outcome |-> "saved",
                                    path |-> cur.dest]]
    /\ cur' = NoDownload
    /\ idx' = idx + 1
    /\ pc' = "loop"
    /\ UNCHANGED <<fs, outDirState, loopFrame>>

\* the for loop is exhausted and main() returns
Finish ==
    /\ pc = "loop"
    /\ idx > Len(abs_urls)
    /\ Exit(0)
    /\ UNCHANGED <<argv, cfgFile, sampleExists, locals, fs, run, runs, allSkip, outDirState, pureVars>>

\* the same command is run again on the same working and output directories
Restart ==
    /\ pc = "exited"
    /\ runs < MaxRuns
    /\ runs' = runs + 1
    /\ pc' = "start"
    /\ exitStatus' = -1
    /\ run' = NewRun
    /\ config' = <<>> /\ url' = <<>> /\ out_dir' = <<>>
    /\ timeout' = 0 /\ retries' = 0 /\ user_agent' = <<>> /\ chunk_size' = 0
    /\ skip_existing' = FALSE /\ payload' = <<>> /\ abs_urls' = <<>> /\ idx' = 0
    /\ cur' = NoDownload
    /\ UNCHANGED <<argv, cfgFile, sampleExists, fs, allSkip, outDirState, pureVars>>

Next ==
    \/ UsageError
    \/ LoadConfigMissing
    \/ LoadConfigError
    \/ LoadConfigOk
    \/ Configure
    \/ CatalogFails
    \/ CatalogNotJson
    \/ CatalogJson
    \/ NoLinks
    \/ StartDownloads
    \/ MkdirFails
    \/ SkipExisting
    \/ RequestFails
    \/ RequestOk
    \/ WriteChunk
    \/ StreamFails
    \/ StreamDone
    \/ Finish
    \/ Restart

Spec == Init /\ [][Next]_vars


-----------------------------------------------------------------------------
(* load_config and the settings of main() on bounded configuration files.  *)

CustomBaseUrl == <<"h", "t", "t", "p", ":", "/", "/", "h", "/", "s">>

CustomOutputDirectory == <<"d", "i", "r">>

V_xml == <<"x", "m", "l">>

K_cloudCover == <<"c", "l", "o", "u", "d", "C", "o", "v", "e", "r">>

ParamPairs == {<<K_httpAccept, V_xml>>, <<K_httpAccept, V_json>>,
               <<K_cloudCover, <<"[", "0", ",", "4", "9", "]">> >>,
               <<<<"q">>, <<"a", " ", "b", "&">> >>}

DistinctKeys(ps) == \A a, b \in 1..Len(ps) : a # b => ps[a][1] # ps[b][1]

ParamLists == UNION {{ps \in [1..n -> ParamPairs] : DistinctKeys(ps)} : n \in 0..MaxParams}

Restrict(f, D) == [k \in D |-> f[k]]

ConnectionChoices ==
    {Restrict([timeout |-> 30, retries |-> 5, user_agent |-> <<"u", "a">>], D) :
        D \in SUBSET {"timeout", "retries", "user_agent"}}

DownloadChoices ==
    {Restrict([chunk_size |-> 1024, skip_existing |-> b], D) :
        b \in BOOLEAN, D \in SUBSET {"chunk_size", "skip_existing"}}

TopKeys == {"base_url", "parameters", "output_directory", "connection", "download_options"}

\* the JSON objects a configuration file may hold: any subset of the keys
AllConfigs ==
    {Restrict(full, D) :
        full \in [base_url : {CustomBaseUrl}, parameters : ParamLists,
                  output_directory : {CustomOutputDirectory},
                  connection : ConnectionChoices, download_options : DownloadChoices],
        D \in SUBSET TopKeys}

InitConfig ==
    /\ InitWith({<<CfgArg>>, <<CfgArg, OutArg>>}, {ValidFile(c) : c \in AllConfigs})
    /\ outDirState = "absent"

NextConfig == LoadConfigOk \/ Configure

SpecConfig == InitConfig /\ [][NextConfig]_vars

\* the value the file gives for key k of dict d, or the documented default
Provided(d, k, default) == IF k \in DOMAIN d THEN d[k] ELSE default

\* the query string of a URL, as the list of its key=value items
QueryItems(u) == split(SubSeq(u, find(u, "?") + 1, Len(u)), "&")

HasQueryItem(u, item) == \E j \in 1..Len(QueryItems(u)) : QueryItems(u)[j] = item

\* C6: for a configuration file that is a JSON object missing any subset of
\* the optional keys, every missing key takes its documented default and
\* every provided key its provided value (the output directory of the
\* configuration is the one used when the command line gives none).
C6_Defaults ==
    pc = "configured" =>
        LET f    == cfgFile.content
            conn == Provided(f, "connection", <<>>)
            opts == Provided(f, "download_options", <<>>)
            fp   == Provided(f, "parameters", <<>>)
            used == IF ParamsHas(fp, K_httpAccept) THEN fp
                    ELSE Append(fp, <<K_httpAccept, <<"j", "s", "o", "n">> >>)
            base == Provided(f, "base_url",
                       <<"h", "t", "t", "p", "s", ":", "/", "/", "c", "o", "l", "l", "g", "s",
                         ".", "l", "u", "/", "c", "a", "t", "a", "l", "o", "g", "/", "o", "s",
                         "e", "o", "/", "s", "e", "a", "r", "c", "h">>)
            dir  == Provided(f, "output_directory",
                       <<"d", "o", "w", "n", "l", "o", "a", "d", "s">>)
        IN  /\ config["base_url"] = base
            /\ config["parameters"] = used
            /\ url = base \o <<"?">> \o urlencode(used, SafeChars)
            /\ config["output_directory"] = dir
            /\ Len(argv) <= 1 => out_dir = Path(dir)
            /\ timeout = Provided(conn, "timeout", 120)
            /\ retries = Provided(conn, "retries", 3)
            /\ user_agent = Provided(conn, "user_agent",
                               <<"e", "o", "-", "d", "o", "w", "n", "l", "o", "a", "d", "e",
                                 "r", "/", "1", ".", "0">>)
            /\ chunk_size = Provided(opts, "chunk_size", 65536)
            /\ skip_existing = Provided(opts, "skip_existing", TRUE)

\* some keys missing, some provided, none on the command line
C6_Witness ==
    /\ pc = "configured"
    /\ Len(argv) = 1
    /\ DOMAIN cfgFile.content = {"base_url", "connection", "download_options"}
    /\ DOMAIN cfgFile.content["connection"] = {"timeout"}
    /\ DOMAIN cfgFile.content["download_options"] = {"skip_existing"}
    /\ timeout = 30 /\ retries = 3 /\ chunk_size = 65536 /\ skip_existing = FALSE
    /\ out_dir = DefaultOutputDirectory
    /\ startswith(url, CustomBaseUrl)

HttpAcceptJson == K_httpAccept \o <<"=">> \o V_json

\* C7: for every configuration object, whatever its parameters mapping holds
\* (an httpAccept entry with another value included), the request URL carries
\* the query parameter httpAccept=json.
C7_HttpAcceptForced == pc = "configured" => HasQueryItem(url, HttpAcceptJson)


-----------------------------------------------------------------------------
(* Properties of main().                                                   *)

Elements(q) == {q[j] : j \in 1..Len(q)}

\* C1: in the download loop every URL of the list is attempted, a failed
\* download does not prevent the attempt of any later URL, and the process
\* finishes with exit status 0 whatever the number of failed downloads.
C1_BatchResilience ==
    /\ pc \in {"loop", "streaming"} =>
          /\ exitStatus = -1
          /\ run.failed \subseteq Elements(run.attempted)
          /\ run.attempted =
                SubSeq(abs_urls, 1, IF pc = "streaming" THEN idx ELSE idx - 1)
    /\ (pc = "exited" /\ abs_urls # <<>>) =>
          /\ exitStatus = 0
          /\ run.attempted = abs_urls
          /\ run.failed \subseteq Elements(abs_urls)

\* the first URL failed and the run still attempted the second and exited 0
C1_Witness ==
    /\ pc = "exited"
    /\ exitStatus = 0
    /\ Len(abs_urls) >= 2
    /\ abs_urls[1] \in run.failed
    /\ run.attempted = abs_urls

\* C2: with skip_existing true and the destination present, stream_download
\* issues no request, leaves every file as it is and returns the existing path.
C2_SkipExisting ==
    [][(InLoop /\ skip_existing /\ dest_path(out_dir, abs_urls[idx]) \in DOMAIN fs) =>
          /\ fs' = fs
          /\ run'.downloadRequests = run.downloadRequests
          /\ run'.writes = run.writes
          /\ run'.open = {}
          /\ run'.last = [url |-> abs_urls[idx], outcome |-> "skipped",
                          path |-> dest_path(out_dir, abs_urls[idx])]
          /\ idx' = idx + 1]_vars

\* a second run that skipped a file of the first run without any request
C2_Witness ==
    /\ runs = 2
    /\ skip_existing
    /\ run.last.outcome = "skipped"
    /\ run.last.path \in DOMAIN fs
    /\ run.downloadRequests = 0
    /\ run.writes = 0

\* C3: a 2xx catalog response whose body is not JSON ends the process with
\* exit status 2; no link is extracted, no asset is requested and no file is
\* written in that run.
C3_NotJsonExit2 ==
    run.catalog = "notjson" =>
        /\ pc = "exited"
        /\ exitStatus = 2
        /\ ~run.extracted
        /\ abs_urls = <<>>
        /\ run.attempted = <<>>
        /\ run.downloadRequests = 0
        /\ run.writes = 0
        /\ run.open = {}

ConfigCauses == {"usage", "missing", "unreadable", "invalid"}

C9_Sequential ==
    /\ run.catalogRequests <= 1
    /\ (pc \in {"loop", "streaming"} \/ run.attempted # <<>> \/ run.downloadRequests > 0) =>
          /\ run.catalogRequests = 1
          /\ run.catalog = "json"
          /\ run.extracted
    /\ abs_urls # <<>> =>
          /\ Elements(abs_urls) = {resolve_url(u) : u \in find_zip_links(payload)}
          /\ \A j, k \in 1..Len(abs_urls) : j < k => StrLess(abs_urls[j], abs_urls[k])
    /\ Len(run.attempted) <= Len(abs_urls)
    /\ run.attempted = SubSeq(abs_urls, 1, Len(run.attempted))
    /\ Cardinality(run.open) <= 1
    /\ run.open # {} => (pc = "streaming" /\ run.open = {cur.dest}
                         /\ cur.src = abs_urls[idx] /\ Len(run.attempted) = idx)
    /\ pc # "streaming" => cur = NoDownload

\* the second of two URLs is being downloaded after the first one finished
C9_Witness ==
    /\ pc = "streaming"
    /\ idx = 2
    /\ Len(abs_urls) = 2
    /\ run.last.url = abs_urls[1]
    /\ run.last.outcome \in {"saved", "failed"}
    /\ run.open = {cur.dest}

\* C10: with skip_existing true in every run, a file that stream_download
\* skips holds the complete body of a download that finished.
C10_SkippedFileComplete ==
    (allSkip /\ run.last.outcome = "skipped") =>
        /\ run.last.path \in DOMAIN fs
        /\ fs[run.last.path].got = fs[run.last.path].total

=============================================================================
